---------------------------- MODULE Spec2Model ----------------------------
(***************************************************************************)
(* Agent lifecycle and task-execution state machine of the SWE-Bench       *)
(* worker (implementation/worker/src/agents/base_agent.py, BaseAgent).     *)
(*                                                                         *)
(* One agent runs on one asyncio event loop.  Every action below is the    *)
(* code a coroutine runs between two suspension points (an await that      *)
(* really yields: the HTTP requests, asyncio.sleep, the subclass's         *)
(* _execute_task_impl, the assistant subprocess of call_claude_code).      *)
(* _run_claude_flow_hook calls the blocking subprocess.run and so never    *)
(* yields; it is part of the step that calls it.                           *)
(***************************************************************************)
EXTENDS Integers, Sequences, FiniteSets, TLC

\* ------------------------------------------------------------------ bounds
MaxCalls == 2
MaxTasks == 2
MaxLoops == 2
MaxCancelReports == 2

MaxUpdates == 4
MaxSends == 2
max_instances == 1
MaxPoolCalls == 2
MaxQueued == 2
MaxCliCalls == 2

\* ------------------------------------------------------- program constants
HeartbeatInterval == 30
RetryDelay == 5

\* Coroutine activations of execute_task that can be live at once; the
\* task_id of the TaskContext a call is given is the call's own number.
Calls == 1..MaxCalls
\* Heartbeat tasks start() can have created.
Loops == 1..MaxLoops
\* Python's None, as a task id, as a loop handle and as a field of a result.
NoTask == 0
NoLoop == 0
None == "<None>"
\* str(e) of the fault the specialized function raises: Exception() and
\* asyncio.TimeoutError() stringify to "", Exception("boom") to "boom".
FaultMessages == {"", "boom"}
\* time.time() - start_time, in whole seconds (the clock is taken not to
\* step backwards while a task runs).
Elapsed == {0, 1}

\* Ids of the agents that share the coordination store.
Agents == {"A", "B"}

\* CoordinationMessage(from_agent, content)
CoordinationMessage == [from_agent : Agents, content : {"hello"}]

\* Python values that pass through the store: None, a str, and the dict
\* {"message": message, "timestamp": ...} that send_coordination_message
\* builds.
PyNone == [py |-> "None"]
PyStr(text) == [py |-> "str", text |-> text]
MessageDict(message) == [py |-> "dict", message |-> message]

\* f"agent/{self.agent.id}/" + f"coordination/messages/{from_agent}":
\* _store_coordination_data and _retrieve_coordination_data both put the
\* id of the agent that runs them in front of the key they are given.
MemoryKey(agent_id, from_agent) ==
    <<"agent", agent_id, "coordination/messages", from_agent>>

MemoryKeys == {MemoryKey(a, f) : a \in Agents, f \in Agents}

\* The instance ids _create_instance can draw, in creation order (one more
\* than the limit, so that a creation past the limit has an id to take),
\* and the concurrent execute_on_instance calls.
InstanceIds == 1..(max_instances + 1)
PoolCalls == 1..MaxPoolCalls
NoInstance == 0
\* An instance_id that is not in self.instances yet.
Absent == "<absent>"
Operations == {"analyze", "fix"}
\* The analysis of the call's task has not run.
NotRun == [fault |-> None]
\* No command has ended for the call.
NoResult == [run |-> None]

VARIABLES
    claude_code,        \* self.claude_code is set (config.claude_code_enabled)
    status,             \* self.agent.status
    current_task,       \* self.current_task (its task_id), or NoTask
    agent_current_task, \* self.agent.current_task
    running,            \* self._running
    heartbeat_task,     \* self._heartbeat_task: a loop of Loops, or NoLoop
    http_closed,        \* self.http_client has been aclose()d
    performance,        \* self.agent.performance
    callPc,             \* each execute_task call: none, impl, done
    callOutcome,        \* how each call ended
    implOutcome,        \* what _execute_task_impl did in each call
    task_result,        \* each call's local task_result, once constructed
    returned,           \* the Task Results handed to each call's caller
    startPc,            \* the start() call in progress: idle, flow, register
    startOutcome,       \* how the last start() call ended
    lastRegistration,   \* outcome of the last registration POST
    registered,         \* the coordinator holds this agent's registration
    everRegistered,     \* some registration request has succeeded
    stopPc,             \* the stop() call in progress
    stopAwait,          \* the heartbeat task stop() is awaiting, or NoLoop
    stopOutcome,        \* how the last stop() call ended
    lastUnregistration, \* outcome of that call's unregister DELETE
    hbPc,               \* each heartbeat loop: none, ready, posting, sleep, ended
    hbCancel,           \* cancellation requested for the loop's asyncio task
    hbLast,             \* outcome of the loop's last heartbeat POST
    hbWait,             \* seconds of the asyncio.sleep the loop is in
    reports,            \* hook reports issued for the live calls: <<kind, task_id>>
    cancelReports,      \* cancellation reports issued per live task_id
    failedReports,      \* reports of the live calls that failed: <<kind, task_id>>
    fed,                \* <<success, execution_time>> of each direct call of
                        \* _update_performance_metrics, in order
    memory,             \* the shared coordination store: value under each key
    stored,             \* <<sender, message>> of each send the store accepted
    sendOutcome,        \* how each agent's last send_coordination_message ended
    received,           \* each agent's last get_coordination_messages call
    instances,          \* ClaudeMaxIntegration.instances: current_task of each
    instance_queue,     \* ClaudeMaxIntegration.instance_queue
    poolPc,             \* each execute_on_instance call: idle, waiting, running, done
    poolOperation,      \* the operation each call was given
    poolInstance,       \* the instance each call acquired, or NoInstance
    poolOutcome,        \* how each call ended
    poolResult,         \* what the command of each call was given and gave back
    cliCalls,           \* call_claude_code calls made: input and response
    researchRun         \* the researcher's analysis for each call: the step
                        \* that faulted and what the implementation does

agentVars == <<status, current_task, agent_current_task, performance>>
callVars == <<callPc, callOutcome, implOutcome, task_result, returned>>
startVars == <<startPc, startOutcome, lastRegistration, registered,
              everRegistered>>
stopVars == <<stopPc, stopAwait, http_closed, stopOutcome,
             lastUnregistration>>
hbVars == <<hbPc, hbCancel, hbLast, hbWait>>
reportVars == <<reports, cancelReports, failedReports>>
\* What the lifecycle and the task engine leave alone.
msgVars == <<memory, stored, sendOutcome, received>>
poolVars == <<instances, instance_queue, poolPc, poolOperation, poolInstance,
             poolOutcome, poolResult>>
\* The agent's collaborators outside the pool and the store.
toolVars == <<cliCalls, researchRun>>
serviceVars == <<fed, msgVars, poolVars, toolVars>>
vars == <<claude_code, agentVars, running, heartbeat_task, callVars,
          startVars, stopVars, hbVars, reportVars, serviceVars>>

\* AgentPerformance(): tasks_completed = 0, success_rate = 100.0,
\* average_time = 0.0.  A float is kept as the pair it was computed from:
\* success_rate <<s, n>> is (s / n) * 100, average_time <<t, n>> is t / n.
AgentPerformance ==
    [tasks_completed |-> 0, success_rate |-> <<1, 1>>, average_time |-> <<0, 1>>]

Init ==
    /\ claude_code \in BOOLEAN
    /\ status = "idle"
    /\ current_task = NoTask
    /\ agent_current_task = NoTask
    /\ running = FALSE
    /\ heartbeat_task = NoLoop
    /\ http_closed = FALSE
    /\ performance = AgentPerformance
    /\ callPc = [c \in Calls |-> "none"]
    /\ callOutcome = [c \in Calls |-> "none"]
    /\ implOutcome = [c \in Calls |-> "none"]
    /\ task_result = [c \in Calls |-> <<>>]
    /\ returned = [c \in Calls |-> <<>>]
    /\ startPc = "idle"
    /\ startOutcome = "none"
    /\ lastRegistration = "none"
    /\ registered = FALSE
    /\ everRegistered = FALSE
    /\ stopPc = "idle"
    /\ stopAwait = NoLoop
    /\ stopOutcome = "none"
    /\ lastUnregistration = "none"
    /\ hbPc = [l \in Loops |-> "none"]
    /\ hbCancel = [l \in Loops |-> FALSE]
    /\ hbLast = [l \in Loops |-> "none"]
    /\ hbWait = [l \in Loops |-> 0]
    /\ reports = {}
    /\ cancelReports = [t \in Calls |-> 0]
    /\ failedReports = {}
    /\ fed = <<>>
    /\ memory = [k \in MemoryKeys |-> PyNone]
    /\ stored = {}
    /\ sendOutcome = [a \in Agents |-> "none"]
    /\ received = [a \in Agents |-> <<>>]
    /\ instances = [i \in InstanceIds |-> Absent]
    /\ instance_queue = <<>>
    /\ poolPc = [k \in PoolCalls |-> "idle"]
    /\ poolOperation = [k \in PoolCalls |-> None]
    /\ poolInstance = [k \in PoolCalls |-> NoInstance]
    /\ poolOutcome = [k \in PoolCalls |-> "none"]
    /\ poolResult = [k \in PoolCalls |-> NoResult]
    /\ cliCalls = <<>>
    /\ researchRun = [c \in Calls |-> NotRun]

\* ---------------------------------------------- coordination messaging
\* `for data in messages_data`: over a dict the loop walks its keys.
Iterate(data) ==
    IF data.py = "dict" THEN <<PyStr("message"), PyStr("timestamp")>>
                        ELSE <<>>

\* The conversion loop of get_coordination_messages: the `message` of
\* every item that is a dict with that key.
ExtractMessages(messages_data) ==
    IF messages_data.py = "None"
    THEN <<>>
    ELSE LET found == SelectSeq(Iterate(messages_data),
                                LAMBDA d : d.py = "dict"
                                           /\ "message" \in DOMAIN d)
         IN  [i \in 1..Len(found) |-> found[i].message]

\* A variant of send_coordination_message without its try/except.
SendOutcomeUnguarded(ok) == IF ok THEN "returned" ELSE "raised"

\* send_coordination_message as its caller sees it: the `except Exception`
\* around its body logs whatever goes wrong (ok is false) and returns.
SendOutcome(ok) == "returned"

\* agent a: await send_coordination_message(message).  With the assistant
\* disabled _store_coordination_data returns at once; otherwise the value
\* is written under a's own key for message.from_agent when the store
\* command succeeds (ok).
SendCoordinationMessage(a, message, ok) ==
    /\ Cardinality(stored) < MaxSends
    /\ IF claude_code /\ ok
       THEN /\ memory' = [memory EXCEPT
                   ![MemoryKey(a, message.from_agent)] = MessageDict(message)]
            /\ stored' = stored \cup {<<a, message>>}
       ELSE UNCHANGED <<memory, stored>>
    /\ sendOutcome' = [sendOutcome EXCEPT ![a] = SendOutcome(ok)]
    /\ UNCHANGED <<claude_code, agentVars, running, heartbeat_task, callVars,
                   startVars, stopVars, hbVars, reportVars, fed, received,
                   poolVars, toolVars>>

\* _retrieve_coordination_data(key): None with the assistant disabled,
\* when the retrieve command fails (ok is false) or prints nothing, else
\* the value the store holds under the agent's own key.
RetrieveCoordinationData(b, from_agent, ok) ==
    IF claude_code /\ ok THEN memory[MemoryKey(b, from_agent)] ELSE PyNone

\* agent b: await get_coordination_messages(from_agent), ending with the
\* list it returns.
GetCoordinationMessages(b, from_agent, ok) ==
    /\ received' = [received EXCEPT ![b] =
           [from_agent |-> from_agent,
            retrieved |-> claude_code /\ ok,
            outcome |-> "returned",
            messages |->
                ExtractMessages(RetrieveCoordinationData(b, from_agent, ok))]]
    /\ UNCHANGED <<claude_code, agentVars, running, heartbeat_task, callVars,
                   startVars, stopVars, hbVars, reportVars, fed, memory,
                   stored, sendOutcome, poolVars, toolVars>>

\* ------------------------------------------------------ assistant pool
\* The frame of the pool's actions: the agent is left alone.
PoolFrame ==
    UNCHANGED <<claude_code, agentVars, running, heartbeat_task, callVars,
                startVars, stopVars, hbVars, reportVars, fed, msgVars,
                toolVars>>

\* get_instance, first loop: the instances that are active and on no task.
IdleInstances == {i \in InstanceIds : instances[i] = None}
Created == {i \in InstanceIds : instances[i] # Absent}
First(ids) == CHOOSE i \in ids : \A j \in ids : i <= j

\* The call k has instance i: instance.current_task = operation, then the
\* await of run_in_executor.
Acquire(k, i) ==
    /\ instances' = [instances EXCEPT ![i] = poolOperation'[k]]
    /\ poolInstance' = [poolInstance EXCEPT ![k] = i]
    /\ poolPc' = [poolPc EXCEPT ![k] = "running"]

\* execute_on_instance(operation, params) up to its first suspension:
\* get_instance returns the first idle instance, else creates one under
\* the limit, else takes the head of instance_queue or waits for one.  New
\* calls stop once MaxQueued releases are kept in the queue.
ExecuteOnInstance(k, operation) ==
    /\ poolPc[k] = "idle"
    /\ Len(instance_queue) < MaxQueued
    /\ poolOperation' = [poolOperation EXCEPT ![k] = operation]
    /\ IF IdleInstances # {}
       THEN /\ Acquire(k, First(IdleInstances))
            /\ UNCHANGED instance_queue
       ELSE IF Cardinality(Created) < max_instances
       THEN /\ Acquire(k, First(InstanceIds \ Created))
            /\ UNCHANGED instance_queue
       ELSE IF instance_queue # <<>>
       THEN /\ Acquire(k, Head(instance_queue))
            /\ instance_queue' = Tail(instance_queue)
       ELSE /\ poolPc' = [poolPc EXCEPT ![k] = "waiting"]
            /\ UNCHANGED <<instances, instance_queue, poolInstance>>
    /\ UNCHANGED <<poolOutcome, poolResult>>
    /\ PoolFrame

\* await self.instance_queue.get() resumes with the head of the queue.
QueueGetResumes(k) ==
    /\ poolPc[k] = "waiting"
    /\ instance_queue # <<>>
    /\ UNCHANGED poolOperation
    /\ Acquire(k, Head(instance_queue))
    /\ instance_queue' = Tail(instance_queue)
    /\ UNCHANGED <<poolOutcome, poolResult>>
    /\ PoolFrame

\* The call is cancelled while it waits in instance_queue.get(): it holds
\* no instance and the try block has not been entered.
QueueGetCancelled(k) ==
    /\ poolPc[k] = "waiting"
    /\ poolPc' = [poolPc EXCEPT ![k] = "done"]
    /\ poolOutcome' = [poolOutcome EXCEPT ![k] = "cancelled"]
    /\ UNCHANGED <<instances, instance_queue, poolOperation, poolInstance,
                   poolResult>>
    /\ PoolFrame

\* How the await of run_in_executor ends: _execute_claude_command returns
\* a result, an error result or (subprocess.TimeoutExpired) a timeout
\* result; the await raises; the call is cancelled while the command runs.
ExitPaths == {"result", "error", "timeout", "exception", "cancelled"}

\* Whether release_instance runs on the exit path: it would not on a
\* raising path if it followed the await instead of standing in finally.
ReleasedAfterReturn(path) == path \in {"result", "error", "timeout"}
\* finally: await self.release_instance(instance), on every path.
Released(path) == TRUE

\* release_instance(instance): current_task = None, then the instance is
\* put in the queue; the put on the unbounded queue does not suspend.
ExecuteOnInstanceExitsWith(k, path, result) ==
    /\ poolPc[k] = "running"
    /\ poolResult' = [poolResult EXCEPT ![k] = result]
    /\ IF Released(path)
       THEN /\ instances' = [instances EXCEPT ![poolInstance[k]] = None]
            /\ instance_queue' = Append(instance_queue, poolInstance[k])
       ELSE UNCHANGED <<instances, instance_queue>>
    /\ poolPc' = [poolPc EXCEPT ![k] = "done"]
    /\ poolOutcome' = [poolOutcome EXCEPT ![k] = path]
    /\ UNCHANGED <<poolOperation, poolInstance>>
    /\ PoolFrame

\* The call exits on the given path, whatever the command was.
ExecuteOnInstanceExits(k, path) == ExecuteOnInstanceExitsWith(k, path, NoResult)

\* The caller takes the outcome; it may call again.
PoolCallerResumes(k) ==
    /\ poolPc[k] = "done"
    /\ poolPc' = [poolPc EXCEPT ![k] = "idle"]
    /\ poolOperation' = [poolOperation EXCEPT ![k] = None]
    /\ poolInstance' = [poolInstance EXCEPT ![k] = NoInstance]
    /\ poolOutcome' = [poolOutcome EXCEPT ![k] = "none"]
    /\ poolResult' = [poolResult EXCEPT ![k] = NoResult]
    /\ UNCHANGED <<instances, instance_queue>>
    /\ PoolFrame

\* --------------------------------------------------- assistant command
\* The operations _execute_claude_command builds a command for.
KnownOperations == {"analyze", "generate", "fix", "test", "solve"}
\* What callers pass: known operations and one that is not.
RequestedOperations == Operations \cup {"refactor"}

\* subprocess.run: TimeoutExpired, or a completed process.  Standard output
\* is empty, a JSON object or text that json.loads rejects.
JsonObject == "{\"success\": true}"
Stdouts == {"", JsonObject, "Traceback"}
\* A process that exits 0 wrote nothing to standard error; one that
\* exits 1 wrote its message there and nothing to standard output.
Runs ==
    {[kind |-> "timeout"]} \cup
    [kind : {"completed"}, returncode : {0}, stdout : Stdouts, stderr : {""}]
    \cup
    {[kind |-> "completed", returncode |-> 1, stdout |-> "",
      stderr |-> "not logged in"]}

\* json.loads(text): the dict of a JSON object, else JSONDecodeError.
JsonLoads(text) ==
    IF text = JsonObject
    THEN [kind |-> "returned", value |-> [success |-> TRUE]]
    ELSE [kind |-> "raised", fault |-> "JSONDecodeError"]

\* The body of the try block: the fault it raises or the value it returns.
CommandBody(operation, run) ==
    IF operation \notin KnownOperations
    THEN [kind |-> "raised", fault |-> "ValueError"]
    ELSE IF run.kind = "timeout"
    THEN [kind |-> "raised", fault |-> "TimeoutExpired"]
    ELSE IF run.returncode # 0
    THEN [kind |-> "returned",
          value |-> [error |-> run.stderr, success |-> FALSE]]
    ELSE IF run.stdout = ""
    THEN [kind |-> "returned", value |-> [success |-> TRUE]]
    ELSE JsonLoads(run.stdout)

\* str(e) of the faults of the try block.
FaultText(fault) ==
    IF fault = "ValueError" THEN "Unknown operation"
    ELSE "Expecting value: line 1 column 1 (char 0)"

\* The faults the except clauses turn into a result: with the clause for
\* subprocess.TimeoutExpired alone the others would leave the function.
HandledTimeoutOnly == {"TimeoutExpired"}
\* except subprocess.TimeoutExpired, then except Exception.
Handled == {"TimeoutExpired", "ValueError", "JSONDecodeError"}

\* _execute_claude_command(instance, operation, params, timeout)
ExecuteClaudeCommand(operation, run) ==
    LET body == CommandBody(operation, run) IN
    IF body.kind = "returned" \/ body.fault \notin Handled
    THEN body
    ELSE IF body.fault = "TimeoutExpired"
    THEN [kind |-> "returned",
          value |-> [error |-> "Operation timed out", success |-> FALSE]]
    ELSE [kind |-> "returned",
          value |-> [error |-> FaultText(body.fault), success |-> FALSE]]

\* The exit path of execute_on_instance for what the command gave back.
ExitPath(run, result) ==
    IF result.kind = "raised" THEN "exception"
    ELSE IF result.value.success THEN "result"
    ELSE IF run.kind = "timeout" THEN "timeout"
    ELSE "error"

\* result = await loop.run_in_executor(...); return result: the command
\* ends and execute_on_instance passes on what it returned or raised.
CommandEnds(k, run) ==
    LET result == ExecuteClaudeCommand(poolOperation[k], run) IN
    ExecuteOnInstanceExitsWith(k, ExitPath(run, result),
                               [run |-> run, result |-> result])

\* ------------------------------------------------------- assistant CLI
\* ClaudeCodeRequest.operation: the four code operations and one that goes
\* to _coordinate_with_claude_flow.
CliOperations == {"analyze", "generate", "validate", "optimize", "swarm_init"}

\* asyncio.create_subprocess_exec and communicate: the process could not be
\* started, or it completed.
CliRuns == {[kind |-> "not started"]} \cup {run \in Runs : run.kind = "completed"}

\* _run_command(cmd): "" when the command could not be run or exited
\* non-zero, else its standard output.
RunCommand(run) ==
    IF run.kind # "completed" THEN ""
    ELSE IF run.returncode # 0 THEN ""
    ELSE run.stdout

\* The dict each helper returns when _run_command gave it "".
DefaultData(operation) ==
    CASE operation = "analyze" -> [analysis |-> "Code analysis completed"]
      [] operation = "generate" -> [explanation |-> "Code generated based on requirements"]
      [] operation = "validate" -> [valid |-> TRUE]
      [] operation = "optimize" -> [performance_gain |-> 0]
      [] OTHER -> [status |-> "completed"]

\* _analyze_with_claude_code and its siblings: json.loads(result) if result
\* else the default dict; except Exception returns {"error": str(e)}.
HelperData(operation, run) ==
    LET result == RunCommand(run) IN
    IF result = "" THEN DefaultData(operation)
    ELSE LET loaded == JsonLoads(result) IN
         IF loaded.kind = "returned" THEN loaded.value
         ELSE [error |-> FaultText(loaded.fault)]

\* ClaudeCodeResponse(success, result, error)
ClaudeCodeResponse(success, result, error) ==
    [success |-> success, result |-> result, error |-> error]

\* call_claude_code(request): the helpers raise nothing, so the enabled
\* integration always answers success=True with what the helper returned.
CallClaudeCode(enabled, operation, run) ==
    IF ~enabled
    THEN ClaudeCodeResponse(FALSE, None, "Claude Code integration is disabled")
    ELSE ClaudeCodeResponse(TRUE, HelperData(operation, run), None)

\* One call of call_claude_code.
CallClaudeCodeCall(enabled, operation, run) ==
    /\ Len(cliCalls) < MaxCliCalls
    /\ cliCalls' = Append(cliCalls,
           [enabled |-> enabled, operation |-> operation, run |-> run,
            response |-> CallClaudeCode(enabled, operation, run)])
    /\ UNCHANGED <<claude_code, agentVars, running, heartbeat_task, callVars,
                   startVars, stopVars, hbVars, reportVars, fed, msgVars,
                   poolVars, researchRun>>

\* ------------------------------------------------ performance record
\* Pairs <<s, n>> for which int(((s / n) * 100 / 100) * n) evaluates, in
\* IEEE-754 double arithmetic, to s - 1 instead of s (all such pairs with
\* n <= 8): e.g. (1/3)*100 = 33.33333333333333 and 0.3333333333333333 * 3
\* = 0.9999999999999998, which int() truncates to 0.
FloatTruncLoss == {<<1, 3>>, <<2, 3>>, <<1, 6>>, <<2, 6>>, <<4, 6>>}

\* A variant that forgets to turn the percentage back into a fraction.
TotalSuccessesUnscaled(rate, m) == (rate[1] * 100 * m) \div rate[2]

\* int((perf.success_rate / 100) * (perf.tasks_completed - 1)), m being the
\* tasks_completed before the increment.
TotalSuccesses(rate, m) ==
    LET exact == (rate[1] * m) \div rate[2]
    IN  IF m = rate[2] /\ rate \in FloatTruncLoss THEN exact - 1 ELSE exact

\* _update_performance_metrics(success, execution_time)
UpdatePerformanceMetrics(perf, success, execution_time) ==
    LET m == perf.tasks_completed
        n == m + 1
        total_successes ==
            TotalSuccesses(perf.success_rate, m) + (IF success THEN 1 ELSE 0)
        total_time ==
            (perf.average_time[1] * m) \div perf.average_time[2] + execution_time
    IN  [tasks_completed |-> n,
         success_rate |-> <<total_successes, n>>,
         average_time |-> <<total_time, n>>]

\* Execution times fed to the update when it is called directly.
ExecutionTimes == {10, 20, 30}

\* await agent._update_performance_metrics(success, execution_time), called
\* directly on an agent with no task in flight.
UpdatePerformanceMetricsCall(success, execution_time) ==
    /\ Len(fed) < MaxUpdates
    /\ performance' =
           UpdatePerformanceMetrics(performance, success, execution_time)
    /\ fed' = Append(fed, <<success, execution_time>>)
    /\ UNCHANGED <<claude_code, status, current_task, agent_current_task,
                   running, heartbeat_task, callVars, startVars, stopVars,
                   hbVars, reportVars, msgVars, poolVars, toolVars>>

\* ------------------------------------------------------ execute_task
\* TaskResult(task_id, agent_id, status, output, error, execution_time)
TaskResult(t, st, out, err, et) ==
    [task_id |-> t, status |-> st, output |-> out, error |-> err,
     execution_time |-> et]

\* _run_claude_flow_hook: without self.claude_code it returns at once and
\* nothing is reported; with it the hook command is run, and whatever the
\* command does is logged and swallowed.
Hook(kind, t) == IF claude_code THEN {<<kind, t>>} ELSE {}

\* The reports among Hook(kind, t) whose command failed (ok is false: the
\* command cannot be run, exits non-zero or prints no JSON).
FailedHook(kind, t, ok) == IF ok THEN {} ELSE Hook(kind, t)

\* A variant of _run_claude_flow_hook without its try/except: a hook
\* command that fails raises into the caller.
RunClaudeFlowHookUnguarded(ok) ==
    IF claude_code /\ ~ok THEN "raised" ELSE "returned"

\* _run_claude_flow_hook as its caller sees it: a non-zero exit is logged,
\* and the `except Exception` around the whole body logs anything raised.
RunClaudeFlowHook(ok) == "returned"

\* _store_coordination_data as its caller sees it: call_claude_code turns
\* every Exception into an unsuccessful response, which is logged.
StoreCoordinationData(ok) == "returned"

\* A variant of the admission test that only turns an offline agent away.
AdmissibleUnlessOffline == status # "offline"

\* The admission test of execute_task: self.agent.status == AgentStatus.IDLE
Admissible == status = "idle"

\* A variant of the finally block that forgets self.current_task.
FinallyKeepsCurrentTask ==
    /\ status' = "idle"
    /\ agent_current_task' = NoTask
    /\ UNCHANGED current_task

\* The finally block of execute_task.
FinallyReset ==
    /\ current_task' = NoTask
    /\ status' = "idle"
    /\ agent_current_task' = NoTask

\* A new call takes the lowest free activation.
NextCall(c) ==
    /\ callPc[c] = "none"
    /\ \A k \in Calls : k < c => callPc[k] # "none"

\* execute_task(task_context) on an agent that is not idle: raises
\* TaskExecutionException(task_id, ...).
ExecuteTaskRejected(c) ==
    /\ NextCall(c)
    /\ ~Admissible
    /\ callPc' = [callPc EXCEPT ![c] = "done"]
    /\ callOutcome' = [callOutcome EXCEPT ![c] = "TaskExecutionException"]
    /\ UNCHANGED <<claude_code, serviceVars, agentVars, running, heartbeat_task,
                   implOutcome, task_result, returned, startVars, stopVars,
                   hbVars, reportVars>>

\* return task_result, through the finally block.
ReturnResult(c, result) ==
    /\ returned' = [returned EXCEPT ![c] = Append(@, result)]
    /\ callOutcome' = [callOutcome EXCEPT ![c] = "returned"]
    /\ callPc' = [callPc EXCEPT ![c] = "done"]
    /\ FinallyReset

\* A variant of the except block that leaves the performance record alone.
ExceptBlockWithoutMetrics(c, perf, msg, et) ==
    /\ performance' = perf
    /\ LET result == TaskResult(c, "failed", None, msg, et)
       IN  /\ task_result' = [task_result EXCEPT ![c] = <<result>>]
           /\ ReturnResult(c, result)

\* The `except Exception` block of execute_task entered with the record
\* perf: metrics, the failed result, return (its failure report is taken
\* to return).
ExceptBlock(c, perf, msg, et) ==
    /\ performance' = UpdatePerformanceMetrics(perf, FALSE, et)
    /\ LET result == TaskResult(c, "failed", None, msg, et)
       IN  /\ task_result' = [task_result EXCEPT ![c] = <<result>>]
           /\ ReturnResult(c, result)

\* execute_task(task_context) on an idle agent, up to the await of
\* _execute_task_impl (_report_task_started does not suspend); hook_ok
\* tells whether the pre-task hook command succeeds.  Admissions stop once
\* tasks_completed has reached MaxTasks.
ExecuteTaskAdmittedReporting(c, hook_ok) ==
    /\ NextCall(c)
    /\ Admissible
    /\ performance.tasks_completed < MaxTasks
    /\ reports' = reports \cup Hook("started", c)
    /\ failedReports' = failedReports \cup FailedHook("started", c, hook_ok)
    /\ IF RunClaudeFlowHook(hook_ok) = "raised"
       THEN ExceptBlock(c, performance, "hook", 0)
       ELSE /\ current_task' = c
            /\ status' = "busy"
            /\ agent_current_task' = c
            /\ callPc' = [callPc EXCEPT ![c] = "impl"]
            /\ UNCHANGED <<performance, callOutcome, task_result, returned>>
    /\ UNCHANGED <<claude_code, serviceVars, running, heartbeat_task, implOutcome,
                   startVars, stopVars, hbVars, cancelReports>>

\* The same with a pre-task hook that succeeds.
ExecuteTaskAdmitted(c) == ExecuteTaskAdmittedReporting(c, TRUE)

\* _execute_task_impl returned: metrics, the completed result, the
\* completion report (hook_ok: its post-task hook command succeeds),
\* return.  With the assistant enabled _report_task_completed also stores
\* the result through call_claude_code(memory_store): json.dumps of the
\* stored value, which holds the TaskResult dataclass, raises TypeError in
\* _coordinate_with_claude_flow before any command is run, where it is
\* caught.  The store therefore fails without suspending, and execute_task
\* runs from the end of _execute_task_impl to its return in one step.
ImplReturnsReporting(c, et, hook_ok) ==
    /\ callPc[c] = "impl"
    /\ implOutcome' = [implOutcome EXCEPT ![c] = "returned"]
    /\ IF RunClaudeFlowHook(hook_ok) = "raised"
       THEN /\ reports' = reports \cup Hook("completed", c)
            /\ failedReports' =
                   failedReports \cup FailedHook("completed", c, hook_ok)
            /\ ExceptBlock(c, UpdatePerformanceMetrics(performance, TRUE, et),
                           "hook", et)
       ELSE /\ reports' =
                   reports \cup Hook("completed", c) \cup Hook("stored", c)
            /\ failedReports' =
                   failedReports \cup FailedHook("completed", c, hook_ok)
                                 \cup Hook("stored", c)
            /\ IF StoreCoordinationData(FALSE) = "raised"
               THEN ExceptBlock(c,
                                UpdatePerformanceMetrics(performance, TRUE, et),
                                "store", et)
               ELSE /\ performance' =
                           UpdatePerformanceMetrics(performance, TRUE, et)
                    /\ LET result ==
                               TaskResult(c, "completed", "output", None, et)
                       IN  /\ task_result' =
                                  [task_result EXCEPT ![c] = <<result>>]
                           /\ ReturnResult(c, result)
    /\ UNCHANGED <<claude_code, serviceVars, running, heartbeat_task, startVars,
                   stopVars, hbVars, cancelReports>>

\* The same with a post-task hook that succeeds.
ImplReturns(c, et) == ImplReturnsReporting(c, et, TRUE)

\* _execute_task_impl raised an Exception whose str() is msg: metrics, the
\* failed result, the failure report (hook_ok), return.  A failure report
\* that raised would leave execute_task through the finally block.
ImplRaisesReporting(c, msg, et, hook_ok) ==
    /\ callPc[c] = "impl"
    /\ implOutcome' = [implOutcome EXCEPT ![c] = "raised"]
    /\ reports' = reports \cup Hook("failed", c)
    /\ failedReports' = failedReports \cup FailedHook("failed", c, hook_ok)
    /\ IF RunClaudeFlowHook(hook_ok) = "raised"
       THEN /\ performance' = UpdatePerformanceMetrics(performance, FALSE, et)
            /\ task_result' = [task_result EXCEPT
                    ![c] = <<TaskResult(c, "failed", None, msg, et)>>]
            /\ callOutcome' = [callOutcome EXCEPT ![c] = "Exception"]
            /\ callPc' = [callPc EXCEPT ![c] = "done"]
            /\ FinallyReset
            /\ UNCHANGED returned
       ELSE ExceptBlock(c, performance, msg, et)
    /\ UNCHANGED <<claude_code, serviceVars, running, heartbeat_task, startVars,
                   stopVars, hbVars, cancelReports>>

\* The same with a failure report that succeeds.
ImplRaises(c, msg, et) == ImplRaisesReporting(c, msg, et, TRUE)

\* The call is cancelled at its suspension point, the await of
\* _execute_task_impl: CancelledError is a BaseException, `except
\* Exception` does not catch it, the finally block runs and the error
\* reaches the caller.
Cancelled(c) ==
    /\ callPc[c] = "impl"
    /\ callOutcome' = [callOutcome EXCEPT ![c] = "CancelledError"]
    /\ callPc' = [callPc EXCEPT ![c] = "done"]
    /\ FinallyReset
    /\ UNCHANGED <<claude_code, serviceVars, performance, running, heartbeat_task,
                   implOutcome, task_result, returned, startVars, stopVars,
                   hbVars, reportVars>>

\* The caller has taken the call's result or exception: the activation is
\* gone, and with it what was recorded of its task.
CallerResumes(c) ==
    /\ callPc[c] = "done"
    /\ callPc' = [callPc EXCEPT ![c] = "none"]
    /\ callOutcome' = [callOutcome EXCEPT ![c] = "none"]
    /\ implOutcome' = [implOutcome EXCEPT ![c] = "none"]
    /\ task_result' = [task_result EXCEPT ![c] = <<>>]
    /\ returned' = [returned EXCEPT ![c] = <<>>]
    /\ reports' = {r \in reports : r[2] # c}
    /\ cancelReports' = [cancelReports EXCEPT ![c] = 0]
    /\ failedReports' = {r \in failedReports : r[2] # c}
    /\ UNCHANGED <<claude_code, serviceVars, agentVars, running, heartbeat_task,
                   startVars, stopVars, hbVars>>

\* ---------------------------------------------------------- researcher
\* The analysis steps of ResearcherAgent._execute_task_impl, in order.
Steps ==
    <<"problem_description", "repository_structure", "affected_files",
      "requirements", "dependencies", "complexity", "recommendations">>
StepNames == {Steps[n] : n \in DOMAIN Steps}
\* The step whose heuristics raise Exception("boom"), or no step.
NoFault == "none"
ResearchFaults == StepNames \cup {NoFault}

\* A variant in which no step catches the faults of its heuristics.
CaughtInNoStep == {}
\* The steps that catch the faults of their own heuristics:
\* _analyze_repository_structure returns {"error": str(e),
\* "analysis_completed": False}, and _analyze_affected_files appends a
\* CodeAnalysis with issues ["Analysis failed: ..."] for the file.
CaughtInStep == {"repository_structure", "affected_files"}

\* What a step hands to _execute_task_impl when fault names the step whose
\* heuristics raise.
StepOutcome(step, fault) ==
    IF fault # step
    THEN [kind |-> "returned", value |-> [analysis_completed |-> TRUE]]
    ELSE IF step \notin CaughtInStep
    THEN [kind |-> "raised", message |-> "boom"]
    ELSE IF step = "repository_structure"
    THEN [kind |-> "returned",
          value |-> [error |-> "boom", analysis_completed |-> FALSE]]
    ELSE [kind |-> "returned",
          value |-> [language |-> "unknown", complexity |-> "unknown",
                     issues |-> <<"Analysis failed: boom">>]]

\* _execute_task_impl(task_context): the steps are awaited in order inside
\* one try; `except Exception` raises WorkerException("Problem analysis
\* failed: ..."), otherwise the analysis_result dict is returned.
ResearcherExecuteTaskImpl(fault) ==
    IF \E n \in DOMAIN Steps : StepOutcome(Steps[n], fault).kind = "raised"
    THEN [kind |-> "raised", exception |-> "WorkerException",
          message |-> "Problem analysis failed: boom"]
    ELSE [kind |-> "returned",
          value |-> [step \in StepNames |-> StepOutcome(step, fault).value]]

\* The researcher's _execute_task_impl runs for the call's task, with the
\* given step faulting.
ResearcherAnalyses(c, fault) ==
    /\ callPc[c] = "impl"
    /\ researchRun[c] = NotRun
    /\ researchRun' = [researchRun EXCEPT
           ![c] = [fault |-> fault, result |-> ResearcherExecuteTaskImpl(fault)]]
    /\ UNCHANGED <<claude_code, agentVars, running, heartbeat_task, callVars,
                   startVars, stopVars, hbVars, reportVars, fed, msgVars,
                   poolVars, cliCalls>>

\* The researcher's _execute_task_impl hands its outcome to execute_task.
ResearcherImplEnds(c, et) ==
    /\ researchRun[c] # NotRun
    /\ IF researchRun[c].result.kind = "raised"
       THEN ImplRaises(c, researchRun[c].result.message, et)
       ELSE ImplReturns(c, et)

\* ------------------------------------------------------------- start
\* start() up to its first suspension: _running, status, then the await of
\* _initialize_claude_flow (assistant enabled) or of the registration POST.
\* One start() call is followed at a time, and only while a heartbeat task
\* is left to create.
StartBegin ==
    /\ startPc = "idle"
    /\ \E l \in Loops : hbPc[l] = "none"
    /\ startOutcome' = "none"
    /\ running' = TRUE
    /\ status' = "idle"
    /\ startPc' = IF claude_code THEN "flow" ELSE "register"
    /\ UNCHANGED <<claude_code, serviceVars, current_task, agent_current_task, performance,
                   heartbeat_task, callVars, lastRegistration, registered,
                   everRegistered, stopVars, hbVars, reportVars>>

\* _initialize_claude_flow came back (it swallows its own failures).
StartFlowDone ==
    /\ startPc = "flow"
    /\ startPc' = "register"
    /\ UNCHANGED <<claude_code, serviceVars, agentVars, running, heartbeat_task, callVars,
                   startOutcome, lastRegistration, registered, everRegistered,
                   stopVars, hbVars, reportVars>>

\* A variant of _register_with_coordinator that, like the unregister
\* request, only logs a failure.
RegistrationSwallowed(ok) == FALSE

\* _register_with_coordinator: a POST that fails (non-2xx, transport error,
\* closed client) is logged and re-raised as WorkerException.
RegistrationRaises(ok) == ~ok

\* The loop asyncio.create_task(self._heartbeat_loop()) creates.
NewLoop ==
    CHOOSE l \in Loops :
        hbPc[l] = "none" /\ \A k \in Loops : k < l => hbPc[k] # "none"

\* The registration POST came back; start() raises, or creates the
\* heartbeat task and returns.
StartRegister(ok) ==
    /\ startPc = "register"
    /\ ok => ~http_closed
    /\ startPc' = "idle"
    /\ lastRegistration' = IF ok THEN "ok" ELSE "failed"
    /\ registered' = (registered \/ ok)
    /\ everRegistered' = (everRegistered \/ ok)
    /\ IF RegistrationRaises(ok)
       THEN /\ startOutcome' = "WorkerException"
            /\ UNCHANGED <<heartbeat_task, hbPc>>
       ELSE /\ startOutcome' = "ok"
            /\ heartbeat_task' = NewLoop
            /\ hbPc' = [hbPc EXCEPT ![NewLoop] = "ready"]
    /\ UNCHANGED <<claude_code, serviceVars, agentVars, running, callVars, stopVars,
                   hbCancel, hbLast, hbWait, reportVars>>

\* ---------------------------------------------------- heartbeat loop
\* _send_heartbeat: the POST and raise_for_status sit in a try whose
\* `except Exception` logs and returns.
SendHeartbeat(ok) == "returned"

\* One pass of the loop body after _send_heartbeat: sleep the interval, or
\* on an Exception log it and sleep 5 seconds.
HeartbeatLoopNext(sent) ==
    IF sent = "raised" THEN <<"sleep", RetryDelay>>
                       ELSE <<"sleep", HeartbeatInterval>>

\* A variant of the loop that leaves on a failed heartbeat.
HeartbeatStopsOnFailure(ok) ==
    IF ok THEN <<"sleep", HeartbeatInterval>> ELSE <<"ended", 0>>

\* The loop body for a heartbeat POST that succeeded (ok) or failed: where
\* the loop goes next, and for how many seconds it sleeps.
HeartbeatIteration(ok) == HeartbeatLoopNext(SendHeartbeat(ok))

\* A variant of _send_heartbeat that marks the agent in error when the
\* POST fails.
HeartbeatMarksError(agent_status, ok) == IF ok THEN agent_status ELSE "error"
\* _send_heartbeat reads self.agent.status.value, current_task and the
\* performance fields into heartbeat_data and assigns none of them.
HeartbeatStatus(agent_status, ok) == agent_status

\* The loop task runs for the first time, or its sleep is over: the
\* `while self._running` test, then the heartbeat POST is awaited.
HbWake(l) ==
    /\ hbPc[l] \in {"ready", "sleep"}
    /\ ~hbCancel[l]
    /\ hbPc' = [hbPc EXCEPT ![l] = IF running THEN "posting" ELSE "ended"]
    /\ UNCHANGED <<claude_code, serviceVars, agentVars, running, heartbeat_task, callVars,
                   startVars, stopVars, hbCancel, hbLast, hbWait, reportVars>>

\* The heartbeat POST came back.
HbPost(l, ok) ==
    /\ hbPc[l] = "posting"
    /\ ~hbCancel[l]
    /\ ok => ~http_closed
    /\ hbLast' = [hbLast EXCEPT ![l] = IF ok THEN "ok" ELSE "failed"]
    /\ hbPc' = [hbPc EXCEPT ![l] = HeartbeatIteration(ok)[1]]
    /\ hbWait' = [hbWait EXCEPT ![l] = HeartbeatIteration(ok)[2]]
    /\ status' = HeartbeatStatus(status, ok)
    /\ UNCHANGED <<claude_code, serviceVars, current_task, agent_current_task,
                   performance, running, heartbeat_task, callVars,
                   startVars, stopVars, hbCancel, reportVars>>

\* The cancelled loop task is resumed with CancelledError (or never runs):
\* `except asyncio.CancelledError: break`.
HbCancelled(l) ==
    /\ hbCancel[l]
    /\ hbPc[l] \in {"ready", "posting", "sleep"}
    /\ hbPc' = [hbPc EXCEPT ![l] = "ended"]
    /\ UNCHANGED <<claude_code, serviceVars, agentVars, running, heartbeat_task, callVars,
                   startVars, stopVars, hbCancel, hbLast, hbWait, reportVars>>

\* -------------------------------------------------------------- stop
LoopAlive(l) == l # NoLoop /\ hbPc[l] # "ended"

\* stop() up to its first suspension: _running, the cancellation report of
\* the task in flight (_report_task_cancelled runs the post-task hook, and
\* only with the assistant enabled; hook_ok: the hook command succeeds),
\* cancel() of the heartbeat task, then the await of that task or, when
\* there is none to wait for, of the unregister DELETE.  A cancellation
\* report that raised would end stop() there.  One stop() call is followed
\* at a time.
StopBeginReporting(hook_ok) ==
    /\ stopPc = "idle"
    /\ running' = FALSE
    /\ lastUnregistration' = "none"
    /\ IF current_task # NoTask /\ claude_code
       THEN /\ cancelReports[current_task] < MaxCancelReports
            /\ cancelReports' = [cancelReports EXCEPT ![current_task] = @ + 1]
            /\ failedReports' = failedReports
                   \cup FailedHook("cancelled", current_task, hook_ok)
       ELSE UNCHANGED <<cancelReports, failedReports>>
    /\ IF current_task # NoTask /\ RunClaudeFlowHook(hook_ok) = "raised"
       THEN /\ stopPc' = "idle"
            /\ stopOutcome' = "Exception"
            /\ UNCHANGED <<hbCancel, stopAwait>>
       ELSE /\ stopOutcome' = "none"
            /\ IF LoopAlive(heartbeat_task)
               THEN /\ hbCancel' = [hbCancel EXCEPT ![heartbeat_task] = TRUE]
                    /\ stopAwait' = heartbeat_task
                    /\ stopPc' = "await"
               ELSE /\ stopPc' = "unregister"
                    /\ UNCHANGED <<hbCancel, stopAwait>>
    /\ UNCHANGED <<claude_code, serviceVars, agentVars, heartbeat_task, callVars,
                   startVars, http_closed, hbPc, hbLast, hbWait, reports>>

\* The same with a cancellation report that succeeds.
StopBegin == StopBeginReporting(TRUE)

\* The awaited heartbeat task has ended.
StopHeartbeatEnded ==
    /\ stopPc = "await"
    /\ hbPc[stopAwait] = "ended"
    /\ stopPc' = "unregister"
    /\ stopAwait' = NoLoop
    /\ UNCHANGED <<claude_code, serviceVars, agentVars, running, heartbeat_task, callVars,
                   startVars, http_closed, stopOutcome, lastUnregistration,
                   hbVars, reportVars>>

\* A variant of _unregister_from_coordinator that, like the registration
\* request, re-raises a failure.
UnregistrationReraised(ok) == ~ok

\* _unregister_from_coordinator: a DELETE that fails (non-2xx, transport
\* error, closed client) is logged as a warning and nothing is raised.
UnregistrationRaises(ok) == FALSE

\* The unregister DELETE came back; stop() goes on to close the client.
StopUnregister(ok) ==
    /\ stopPc = "unregister"
    /\ ok => ~http_closed
    /\ registered' = (registered /\ ~ok)
    /\ lastUnregistration' = IF ok THEN "ok" ELSE "failed"
    /\ IF UnregistrationRaises(ok)
       THEN /\ stopPc' = "idle"
            /\ stopOutcome' = "Exception"
       ELSE /\ stopPc' = "closing"
            /\ UNCHANGED stopOutcome
    /\ UNCHANGED <<claude_code, serviceVars, agentVars, running, heartbeat_task, callVars,
                   startPc, startOutcome, lastRegistration, everRegistered,
                   stopAwait, http_closed, hbVars, reportVars>>

\* http_client.aclose() came back; stop() returns.
StopClose ==
    /\ stopPc = "closing"
    /\ http_closed' = TRUE
    /\ stopPc' = "idle"
    /\ stopOutcome' = "returned"
    /\ UNCHANGED <<claude_code, serviceVars, agentVars, running, heartbeat_task, callVars,
                   startVars, stopAwait, lastUnregistration, hbVars,
                   reportVars>>

\* ------------------------------------------------------ specification
Next ==
    \/ \E c \in Calls : ExecuteTaskRejected(c)
    \/ \E c \in Calls : ExecuteTaskAdmitted(c)
    \/ \E c \in Calls, et \in Elapsed : ImplReturns(c, et)
    \/ \E c \in Calls, msg \in FaultMessages, et \in Elapsed : ImplRaises(c, msg, et)
    \/ \E c \in Calls : Cancelled(c)
    \/ \E c \in Calls : CallerResumes(c)
    \/ StartBegin
    \/ StartFlowDone
    \/ \E ok \in BOOLEAN : StartRegister(ok)
    \/ \E l \in Loops : HbWake(l)
    \/ \E l \in Loops, ok \in BOOLEAN : HbPost(l, ok)
    \/ \E l \in Loops : HbCancelled(l)
    \/ StopBegin
    \/ StopHeartbeatEnded
    \/ \E ok \in BOOLEAN : StopUnregister(ok)
    \/ StopClose

Spec == Init /\ [][Next]_vars

\* The task engine: execute_task calls interleaved with start().  stop() and
\* the heartbeat loops write none of the variables execute_task reads
\* (status, claude_code, performance), so they are left to LifecycleSpec.
EngineNext ==
    \/ \E c \in Calls : ExecuteTaskRejected(c)
    \/ \E c \in Calls : ExecuteTaskAdmitted(c)
    \/ \E c \in Calls, et \in Elapsed : ImplReturns(c, et)
    \/ \E c \in Calls, msg \in FaultMessages, et \in Elapsed : ImplRaises(c, msg, et)
    \/ \E c \in Calls : Cancelled(c)
    \/ \E c \in Calls : CallerResumes(c)
    \/ StartBegin
    \/ StartFlowDone
    \/ \E ok \in BOOLEAN : StartRegister(ok)

EngineSpec == Init /\ [][EngineNext]_vars

\* The agent's presence at the coordinator: start(), stop() and the
\* heartbeat loops, with no task in flight.
LifecycleNext ==
    \/ StartBegin
    \/ StartFlowDone
    \/ \E ok \in BOOLEAN : StartRegister(ok)
    \/ \E l \in Loops : HbWake(l)
    \/ \E l \in Loops, ok \in BOOLEAN : HbPost(l, ok)
    \/ \E l \in Loops : HbCancelled(l)
    \/ StopBegin
    \/ StopHeartbeatEnded
    \/ \E ok \in BOOLEAN : StopUnregister(ok)
    \/ StopClose

LifecycleSpec == Init /\ [][LifecycleNext]_vars

\* The event loop resumes a heartbeat task whose sleep is over or whose
\* request has come back, and delivers a requested cancellation.
FairLifecycleSpec ==
    /\ LifecycleSpec
    /\ \A l \in Loops : WF_vars(HbWake(l))
    /\ \A l \in Loops : WF_vars(\E ok \in BOOLEAN : HbPost(l, ok))
    /\ \A l \in Loops : WF_vars(HbCancelled(l))

\* Shutdown with work in hand: execute_task calls interleaved with stop() on
\* an agent whose heartbeat is not running.
ShutdownNext ==
    \/ \E c \in Calls : ExecuteTaskRejected(c)
    \/ \E c \in Calls : ExecuteTaskAdmitted(c)
    \/ \E c \in Calls, et \in Elapsed : ImplReturns(c, et)
    \/ \E c \in Calls, msg \in FaultMessages, et \in Elapsed : ImplRaises(c, msg, et)
    \/ \E c \in Calls : Cancelled(c)
    \/ \E c \in Calls : CallerResumes(c)
    \/ StopBegin
    \/ \E ok \in BOOLEAN : StopUnregister(ok)
    \/ StopClose

ShutdownSpec == Init /\ [][ShutdownNext]_vars

\* Shutdown of a working agent: start(), the heartbeat loops and stop(),
\* with execute_task calls that are admitted and stay suspended in
\* _execute_task_impl.
BusyShutdownNext ==
    \/ \E c \in Calls : ExecuteTaskAdmitted(c)
    \/ StartBegin
    \/ StartFlowDone
    \/ \E ok \in BOOLEAN : StartRegister(ok)
    \/ \E l \in Loops : HbWake(l)
    \/ \E l \in Loops, ok \in BOOLEAN : HbPost(l, ok)
    \/ \E l \in Loops : HbCancelled(l)
    \/ StopBegin
    \/ StopHeartbeatEnded
    \/ \E ok \in BOOLEAN : StopUnregister(ok)
    \/ StopClose

BusyShutdownSpec == Init /\ [][BusyShutdownNext]_vars

\* The task engine with reports that can fail: execute_task calls, one in
\* flight at a time, whose hook commands succeed or fail and whose result
\* store fails, and a stop() followed up to its first suspension.
ReportingNext ==
    \/ \E c \in Calls, hook_ok \in BOOLEAN :
           ExecuteTaskAdmittedReporting(c, hook_ok)
    \/ \E c \in Calls, et \in Elapsed, hook_ok \in BOOLEAN :
           ImplReturnsReporting(c, et, hook_ok)
    \/ \E c \in Calls, msg \in FaultMessages, et \in Elapsed,
          hook_ok \in BOOLEAN : ImplRaisesReporting(c, msg, et, hook_ok)
    \/ \E c \in Calls : CallerResumes(c)
    \/ \E hook_ok \in BOOLEAN : StopBeginReporting(hook_ok)

ReportingSpec == Init /\ [][ReportingNext]_vars

\* The performance record under direct calls of its update function.
MetricsNext ==
    \E success \in BOOLEAN, execution_time \in ExecutionTimes :
        UpdatePerformanceMetricsCall(success, execution_time)

MetricsSpec == Init /\ [][MetricsNext]_vars

\* Coordination messaging between the agents that share a store.
MessagingNext ==
    \/ \E a \in Agents, message \in CoordinationMessage, ok \in BOOLEAN :
           SendCoordinationMessage(a, message, ok)
    \/ \E b \in Agents, from_agent \in Agents, ok \in BOOLEAN :
           GetCoordinationMessages(b, from_agent, ok)

MessagingSpec == Init /\ [][MessagingNext]_vars

\* The assistant pool: concurrent execute_on_instance calls on one
\* ClaudeMaxIntegration.
PoolNext ==
    \/ \E k \in PoolCalls, operation \in Operations :
           ExecuteOnInstance(k, operation)
    \/ \E k \in PoolCalls : QueueGetResumes(k)
    \/ \E k \in PoolCalls : QueueGetCancelled(k)
    \/ \E k \in PoolCalls, path \in ExitPaths : ExecuteOnInstanceExits(k, path)
    \/ \E k \in PoolCalls : PoolCallerResumes(k)

PoolSpec == Init /\ [][PoolNext]_vars

\* The assistant pool with the commands its calls run.
CommandNext ==
    \/ \E k \in PoolCalls, operation \in RequestedOperations :
           ExecuteOnInstance(k, operation)
    \/ \E k \in PoolCalls : QueueGetResumes(k)
    \/ \E k \in PoolCalls, run \in Runs : CommandEnds(k, run)
    \/ \E k \in PoolCalls : PoolCallerResumes(k)

CommandSpec == Init /\ [][CommandNext]_vars

\* The assistant CLI integration: call_claude_code calls.
CliNext ==
    \E enabled \in BOOLEAN, operation \in CliOperations, run \in CliRuns :
        CallClaudeCodeCall(enabled, operation, run)

CliSpec == Init /\ [][CliNext]_vars

\* A working agent: execute_task calls, each made once, interleaved with
\* start() and the heartbeat loops it creates.
WorkingNext ==
    \/ \E c \in Calls : ExecuteTaskAdmitted(c)
    \/ \E c \in Calls, et \in Elapsed : ImplReturns(c, et)
    \/ \E c \in Calls, msg \in FaultMessages, et \in Elapsed : ImplRaises(c, msg, et)
    \/ StartBegin
    \/ StartFlowDone
    \/ \E ok \in BOOLEAN : StartRegister(ok)
    \/ \E l \in Loops : HbWake(l)
    \/ \E l \in Loops, ok \in BOOLEAN : HbPost(l, ok)

WorkingSpec == Init /\ [][WorkingNext]_vars

\* The researcher at work: execute_task calls, each made once, whose
\* specialized function is the researcher's analysis.
ResearchNext ==
    \/ \E c \in Calls : ExecuteTaskAdmitted(c)
    \/ \E c \in Calls, fault \in ResearchFaults : ResearcherAnalyses(c, fault)
    \/ \E c \in Calls, et \in Elapsed : ResearcherImplEnds(c, et)
    \/ \E c \in Calls : Cancelled(c)

ResearchSpec == Init /\ [][ResearchNext]_vars

\* Attempts counted: execute_task calls, each made once so that every
\* call's outcome stays on record, with reports that succeed or fail and
\* with start(), which lets a second call in while one is in flight.
AttemptsNext ==
    \/ \E c \in Calls : ExecuteTaskRejected(c)
    \/ \E c \in Calls, hook_ok \in BOOLEAN :
           ExecuteTaskAdmittedReporting(c, hook_ok)
    \/ \E c \in Calls, et \in Elapsed, hook_ok \in BOOLEAN :
           ImplReturnsReporting(c, et, hook_ok)
    \/ \E c \in Calls, msg \in FaultMessages, et \in Elapsed,
          hook_ok \in BOOLEAN : ImplRaisesReporting(c, msg, et, hook_ok)
    \/ \E c \in Calls : Cancelled(c)
    \/ StartBegin
    \/ StartFlowDone
    \/ \E ok \in BOOLEAN : StartRegister(ok)

AttemptsSpec == Init /\ [][AttemptsNext]_vars

\* The specialized function of the call ends: it returns or raises.
ImplEnds(c) ==
    \/ \E et \in Elapsed : ImplReturns(c, et)
    \/ \E msg \in FaultMessages, et \in Elapsed : ImplRaises(c, msg, et)

\* Task turnover: execute_task calls, each made once, with start(), which
\* lets a second call in while one is in flight.
TurnoverNext ==
    \/ \E c \in Calls : ExecuteTaskRejected(c)
    \/ \E c \in Calls : ExecuteTaskAdmitted(c)
    \/ \E c \in Calls, et \in Elapsed : ImplReturns(c, et)
    \/ \E c \in Calls, msg \in FaultMessages, et \in Elapsed : ImplRaises(c, msg, et)
    \/ \E c \in Calls : Cancelled(c)
    \/ StartBegin
    \/ StartFlowDone
    \/ \E ok \in BOOLEAN : StartRegister(ok)

TurnoverSpec == Init /\ [][TurnoverNext]_vars

\* Turnover with specialized functions that end: the event loop resumes
\* execute_task once the awaited _execute_task_impl has returned or raised.
FairTurnoverSpec ==
    /\ TurnoverSpec
    /\ \A c \in Calls : WF_vars(ImplEnds(c))

\* ------------------------------------------------------------ claims
InFlight == {c \in Calls : callPc[c] = "impl"}

\* C1: in every reachable state the agent is busy iff a current task is
\* set, and idle iff none is set.
C1_StatusMatchesCurrentTask ==
    /\ status = "busy" <=> current_task # NoTask
    /\ status = "idle" <=> current_task = NoTask

\* A step in which execute_task is called (activation c starts).
CalledNow(c) == callPc[c] = "none" /\ callPc'[c] # "none"

\* C2: execute_task called on an agent that is not idle raises
\* TaskExecutionException without invoking the specialized function and
\* changes neither status, current_task, the performance record nor any
\* call in flight; no Task Result is handed out in that step.
C2_RejectedCallChangesNothing ==
    [][\A c \in Calls :
         (CalledNow(c) /\ status # "idle") =>
            /\ callPc'[c] = "done"
            /\ callOutcome'[c] = "TaskExecutionException"
            /\ implOutcome'[c] = "none"
            /\ UNCHANGED <<status, current_task, agent_current_task,
                           performance, task_result, returned, reports>>
            /\ \A k \in Calls \ {c} : callPc'[k] = callPc[k]]_vars

\* A call was turned away while another one was in flight.
C2_Witness ==
    \E c \in Calls :
        /\ callOutcome[c] = "TaskExecutionException"
        /\ InFlight # {}
        /\ returned[c] = <<>>

\* C3: at most one invocation of _execute_task_impl is in progress at any
\* instant.
C3_AtMostOneImplRunning == Cardinality({c \in Calls : callPc[c] = "impl"}) <= 1

\* C4: whenever an admitted execute_task call exits (result returned, fault
\* converted, or cancelled), current_task is cleared and status is idle at
\* that moment.
C4_ExitResetsAgent ==
    [][\A c \in Calls :
         (callPc[c] = "impl" /\ callPc'[c] = "done") =>
            /\ status' = "idle"
            /\ current_task' = NoTask
            /\ agent_current_task' = NoTask]_vars

\* An admitted call has just been cancelled and left the agent idle.
C4_Witness ==
    \E c \in Calls :
        /\ callPc[c] = "done"
        /\ callOutcome[c] = "CancelledError"
        /\ status = "idle"
        /\ current_task = NoTask

\* C5: every admitted execute_task call ends by handing its caller exactly
\* one Task Result, completed or failed, and never an exception.
C5_AdmittedCallReturnsOneResult ==
    \A c \in Calls :
        (callPc[c] = "done" /\ callOutcome[c] # "TaskExecutionException") =>
            /\ callOutcome[c] = "returned"
            /\ Len(returned[c]) = 1
            /\ returned[c][1].status \in {"completed", "failed"}

\* C6: for every fault raised by the specialized function the returned Task
\* Result is failed, has a non-empty error string, an execution_time >= 0
\* and no output.
C6_FaultGivesFailedResult ==
    \A c \in Calls :
        (callPc[c] = "done" /\ implOutcome[c] = "raised") =>
            /\ Len(returned[c]) = 1
            /\ returned[c][1].status = "failed"
            /\ returned[c][1].error \notin {None, ""}
            /\ returned[c][1].execution_time >= 0
            /\ returned[c][1].output = None

\* C7: a failed registration makes start() raise WorkerException without
\* creating the heartbeat task, and a heartbeat loop exists only once a
\* registration has succeeded.
C7_NoHeartbeatWithoutRegistration ==
    /\ [](\A l \in Loops : hbPc[l] # "none" => everRegistered)
    /\ []((startPc = "idle" /\ lastRegistration = "failed")
             => startOutcome = "WorkerException")
    /\ [][(startPc = "register" /\ startPc' = "idle"
              /\ lastRegistration' = "failed")
             => UNCHANGED <<hbPc, heartbeat_task>>]_vars

\* start() has raised on a failed registration and no loop was created.
C7_Witness ==
    /\ startPc = "idle"
    /\ lastRegistration = "failed"
    /\ startOutcome = "WorkerException"
    /\ \A l \in Loops : hbPc[l] = "none"

\* C8: once start() has raised because registration failed, no execute_task
\* call is admitted while the agent remains unregistered.
C8_NoAdmissionWhileUnregistered ==
    [][(startPc = "idle" /\ startOutcome = "WorkerException" /\ ~registered)
          => \A c \in Calls : CalledNow(c) => callPc'[c] # "impl"]_vars

\* C9: a failed heartbeat POST does not end the loop (only cancellation
\* takes the loop out of a pending POST), and after it the loop attempts
\* another heartbeat unless the agent stops running or the loop is
\* cancelled.
C9_FailedHeartbeatIsRetried ==
    /\ [][\A l \in Loops :
            (hbPc[l] = "posting" /\ hbPc'[l] = "ended") => hbCancel[l]]_vars
    /\ \A l \in Loops :
         (hbPc[l] = "sleep" /\ hbLast[l] = "failed")
            ~> (hbPc[l] = "posting" \/ ~running \/ hbCancel[l])

\* A loop is posting again after a heartbeat of its own failed.
C9_Witness ==
    \E l \in Loops : hbPc[l] = "posting" /\ hbLast[l] = "failed"

\* C10: after a failed heartbeat POST the loop sleeps the 5-second retry
\* delay, after a successful one the configured heartbeat interval.
C10_BackoffAfterFailedHeartbeat ==
    \A l \in Loops :
        hbPc[l] = "sleep" =>
            hbWait[l] = IF hbLast[l] = "failed" THEN RetryDelay
                                                ELSE HeartbeatInterval

\* C11: stop() cancels the heartbeat loop and waits for it to terminate
\* before it issues the unregister request: from the unregister request on,
\* no heartbeat loop of the agent is left running, so none posts a heartbeat
\* once stop() has returned.
C11_LoopsEndedBeforeUnregister ==
    stopPc \in {"unregister", "closing"} =>
        \A l \in Loops : hbPc[l] \in {"none", "ended"}

\* C12: however often stop() is called, at most one cancellation report is
\* issued for a task in flight.
C12_OneCancellationReportPerTask ==
    \A t \in Calls : cancelReports[t] <= 1

\* A step in which stop() is called.
StopCalled == stopPc = "idle" /\ stopPc' # "idle"

\* The steps of stop() after the cancellation report, in their order: cancel
\* and await the heartbeat task, unregister, release the HTTP client.
StopStepsInOrder ==
    /\ stopPc # "idle" => \A t \in Calls : cancelReports'[t] <= cancelReports[t]
    /\ StopCalled =>
          IF LoopAlive(heartbeat_task)
          THEN /\ hbCancel'[heartbeat_task]
               /\ stopAwait' = heartbeat_task
               /\ stopPc' = "await"
          ELSE stopPc' = "unregister"
    /\ hbCancel' # hbCancel => StopCalled
    /\ (stopPc = "await" /\ stopPc' # "await") =>
          /\ hbPc[stopAwait] = "ended"
          /\ stopPc' = "unregister"
    /\ (stopPc = "unregister" /\ stopPc' # "unregister") =>
          /\ stopPc' = "closing"
          /\ UNCHANGED http_closed
    /\ (registered /\ ~registered') => stopPc = "unregister"
    /\ http_closed' # http_closed => (stopPc = "closing" /\ http_closed')
    /\ (stopPc = "closing" /\ stopPc' # "closing") =>
          /\ stopPc' = "idle"
          /\ http_closed'

\* C13: stop() called with a task in flight reports a cancelled outcome
\* naming that task's id, and none when no task is in flight; it then
\* performs its steps in the order report, cancel and await the heartbeat
\* loop, unregister, release the HTTP client.
C13_StopReportsCancelledTask ==
    [][/\ StopCalled =>
            IF current_task # NoTask
            THEN cancelReports' =
                     [cancelReports EXCEPT ![current_task] = @ + 1]
            ELSE UNCHANGED cancelReports
       /\ StopStepsInOrder]_vars

\* C14: a failure of the unregister request is not propagated: stop() goes
\* on to release the HTTP client, and a stop() whose unregister request
\* failed has returned normally with the client closed.
C14_UnregisterFailureNotPropagated ==
    /\ [][(stopPc = "unregister" /\ lastUnregistration' = "failed") =>
             (stopPc' = "closing" /\ stopOutcome' = "none")]_vars
    /\ []((stopPc = "idle" /\ lastUnregistration = "failed") =>
             (stopOutcome = "returned" /\ http_closed))

\* stop() has returned after its unregister request failed while the
\* coordinator still holds the registration.
C14_Witness ==
    /\ stopPc = "idle"
    /\ lastUnregistration = "failed"
    /\ stopOutcome = "returned"
    /\ http_closed
    /\ registered

RoundedSuccesses(rate, m) == (2 * rate[1] * m + rate[2]) \div (2 * rate[2])

\* The specified incremental update of the performance record.
SpecifiedUpdate(perf, success, execution_time) ==
    LET m == perf.tasks_completed
        n == m + 1
        prior_successes ==
            RoundedSuccesses(perf.success_rate, m) + (IF success THEN 1 ELSE 0)
        total_time ==
            (perf.average_time[1] * m) \div perf.average_time[2] + execution_time
    IN  [tasks_completed |-> n,
         success_rate |-> <<prior_successes, n>>,
         average_time |-> <<total_time, n>>]

\* C16: every update of the performance record gives what the specified
\* incremental algorithm gives for the same prior record and inputs, prior
\* successes being re-derived by rounding to nearest.
C16_UpdateFollowsSpecifiedAlgorithm ==
    [][fed' # fed =>
          performance' = SpecifiedUpdate(performance, fed'[Len(fed')][1],
                                         fed'[Len(fed')][2])]_vars

\* C17: a fresh record fed (true, 10), (false, 20), (true, 30) has
\* tasks_completed = 3, average_time = 20 and success_rate = 66.67 up to
\* rounding.
C17_ThreeTaskAggregate ==
    fed = <<<<TRUE, 10>>, <<FALSE, 20>>, <<TRUE, 30>>>> =>
        /\ performance.tasks_completed = 3
        /\ performance.average_time[1] = 20 * performance.average_time[2]
        /\ (performance.success_rate[1] * 10000)
              \div performance.success_rate[2] \in 6666..6667

\* The three inputs have been fed to a fresh record.
C17_Witness ==
    /\ fed = <<<<TRUE, 10>>, <<FALSE, 20>>, <<TRUE, 30>>>>
    /\ performance.tasks_completed = 3

\* A step in which a messaging call ends.
MessagingStep ==
    \/ sendOutcome' # sendOutcome
    \/ received' # received
    \/ memory' # memory
    \/ stored' # stored

\* C18: send_coordination_message returns normally whatever the store does,
\* get_coordination_messages returns normally and with an empty list when
\* the retrieval failed, and neither touches status, current task or the
\* performance record.
C18_MessagingNeverPropagates ==
    /\ [](\A a \in Agents : sendOutcome[a] \in {"none", "returned"})
    /\ [](\A b \in Agents :
            received[b] # <<>> =>
               /\ received[b].outcome = "returned"
               /\ ~received[b].retrieved => received[b].messages = <<>>)
    /\ [][MessagingStep => UNCHANGED agentVars]_vars

\* With the assistant enabled, an agent's send was refused by the store and
\* returned, and another agent's retrieval failed and gave the empty list.
C18_Witness ==
    \E a, b \in Agents :
        /\ claude_code
        /\ stored = {}
        /\ sendOutcome[a] = "returned"
        /\ a # b
        /\ received[b] # <<>>
        /\ ~received[b].retrieved
        /\ received[b].messages = <<>>

\* The messages of a returned list.
Listed(messages) == {messages[i] : i \in 1..Len(messages)}

\* C19: when store and retrieval succeed, a message that agent a has sent
\* with from_agent = a is in the list a later
\* get_coordination_messages(from_agent = a) returns to another agent b.
C19_SentMessageIsReceived ==
    [][\A b \in Agents :
         (received'[b] # received[b] /\ received'[b].retrieved) =>
            \A sm \in stored :
               (sm[1] # b /\ sm[2].from_agent = sm[1]
                   /\ received'[b].from_agent = sm[1]) =>
                  sm[2] \in Listed(received'[b].messages)]_vars


\* C20: execute_on_instance releases the instance it acquired on every
\* exit path (result, error result, timeout, exception, cancellation while
\* the operation runs): when the call exits, the instance has no current
\* task and get_instance finds an idle instance, so a subsequent acquire
\* returns one without waiting on the queue.
C20_InstanceReleasedOnEveryExit ==
    [][\A k \in PoolCalls :
         (poolPc[k] = "running" /\ poolPc'[k] = "done") =>
            /\ poolOutcome'[k] \in ExitPaths
            /\ instances'[poolInstance[k]] = None
            /\ {i \in InstanceIds : instances'[i] = None} # {}]_vars

\* A call that was cancelled while its operation ran has exited, and the
\* instance it held is idle.
C20_Witness ==
    \E k \in PoolCalls :
        /\ poolPc[k] = "done"
        /\ poolOutcome[k] = "cancelled"
        /\ poolInstance[k] # NoInstance
        /\ instances[poolInstance[k]] = None


\* C21: the pool is bounded: a call never brings the number of created
\* instances above max_instances, and a call that finds no idle instance
\* with the pool at its limit creates none and waits.
C21_PoolBoundedAndCallerWaits ==
    [][\A k \in PoolCalls :
         (poolPc[k] = "idle" /\ poolPc'[k] # "idle") =>
            /\ Cardinality(Created') <= max_instances
            /\ (IdleInstances = {} /\ Cardinality(Created) >= max_instances) =>
                   /\ Created' = Created
                   /\ poolPc'[k] = "waiting"]_vars

\* C27: instances are held exclusively: no two running calls hold the
\* same instance.
C27_InstancesHeldExclusively ==
    \A k1, k2 \in PoolCalls :
        (k1 # k2 /\ poolPc[k1] = "running" /\ poolPc[k2] = "running") =>
            poolInstance[k1] # poolInstance[k2]

\* The cases C22 names: the subprocess timed out, exited non-zero or wrote
\* text that is not JSON, or the operation is unknown.
FailureCase(operation, run) ==
    \/ operation \notin KnownOperations
    \/ run.kind = "timeout"
    \/ run.kind = "completed" /\ run.returncode # 0
    \/ run.kind = "completed" /\ run.stdout \notin {"", JsonObject}

\* C22: a pool operation never crashes its caller: in each failure case
\* execute_on_instance returns a result with success = false and an error
\* entry instead of raising.
C22_FailureIsStructuredResult ==
    [][\A k \in PoolCalls :
         (poolResult'[k] # poolResult[k] /\ poolResult'[k] # NoResult
          /\ FailureCase(poolOperation[k], poolResult'[k].run)) =>
            /\ poolOutcome'[k] # "exception"
            /\ poolResult'[k].result.kind = "returned"
            /\ "error" \in DOMAIN poolResult'[k].result.value
            /\ ~poolResult'[k].result.value.success]_vars

\* A call whose command wrote text that is not JSON has returned a failure
\* result.
C22_Witness ==
    \E k \in PoolCalls :
        /\ poolPc[k] = "done"
        /\ poolResult[k] # NoResult
        /\ poolResult[k].run.kind = "completed"
        /\ poolResult[k].run.returncode = 0
        /\ poolResult[k].run.stdout = "Traceback"
        /\ poolOperation[k] \in KnownOperations
        /\ poolOutcome[k] = "error"

\* C23: a call_claude_code whose subprocess exited non-zero or wrote text
\* that is not JSON answers success = false with an error message.
C23_CliFailureIsReported ==
    \A n \in 1..Len(cliCalls) :
        LET call == cliCalls[n] IN
        (/\ call.enabled
         /\ call.run.kind = "completed"
         /\ \/ call.run.returncode # 0
            \/ call.run.stdout \notin {"", JsonObject}) =>
            /\ ~call.response.success
            /\ call.response.error # None

\* A step of a heartbeat loop: its task is resumed after creation or a
\* sleep, or its POST comes back.
HeartbeatTick ==
    \E l \in Loops :
        hbPc[l] \in {"ready", "sleep", "posting"} /\ hbPc'[l] # hbPc[l]

\* C24: no heartbeat tick, successful or failed, changes the agent's
\* status, current_task or performance record, whatever execute_task is
\* doing.
C24_HeartbeatOnlyReads ==
    [][HeartbeatTick => UNCHANGED agentVars]_vars

\* A heartbeat failed and the loop sleeps while a task is in flight on an
\* agent that has completed a task before.
C24_Witness ==
    \E l \in Loops :
        /\ hbPc[l] = "sleep"
        /\ hbLast[l] = "failed"
        /\ status = "busy"
        /\ current_task # NoTask
        /\ performance.tasks_completed >= 1

\* The call's analysis ran with a faulting step.
Faulted(c) == researchRun[c] # NotRun /\ researchRun[c].fault # NoFault

\* execute_task has returned the failed Task Result of the fault.
FailedResultReturned(c) ==
    /\ Len(returned[c]) = 1
    /\ returned[c][1].status = "failed"
    /\ returned[c][1].error = "Problem analysis failed: boom"

\* C25 as claimed: a fault raised in any of the researcher's seven
\* analysis steps makes _execute_task_impl raise a WorkerException rather
\* than return an analysis, and execute_task returns a failed Task Result.
C25_AnyStepFaultRaises ==
    \A c \in Calls :
        Faulted(c) =>
            /\ researchRun[c].result.kind = "raised"
            /\ (callPc[c] = "done" /\ implOutcome[c] # "none") =>
                   FailedResultReturned(c)

\* C25 amended: a fault in the problem description, requirements,
\* dependencies, complexity or recommendations step makes
\* _execute_task_impl raise a WorkerException, which execute_task turns
\* into a failed Task Result; a fault in the repository structure step or
\* in the analysis of an affected file is caught in the step, and
\* _execute_task_impl returns an analysis that carries the error.
C25_StepFaultRaisesUnlessCaughtInStep ==
    \A c \in Calls :
        Faulted(c) =>
            LET run == researchRun[c] IN
            IF run.fault \in {"repository_structure", "affected_files"}
            THEN /\ run.result.kind = "returned"
                 /\ run.result.value[run.fault] \notin
                        {[analysis_completed |-> TRUE]}
                 /\ implOutcome[c] # "raised"
            ELSE /\ run.result.kind = "raised"
                 /\ run.result.exception = "WorkerException"
                 /\ implOutcome[c] # "returned"
                 /\ (callPc[c] = "done" /\ implOutcome[c] = "raised") =>
                        FailedResultReturned(c)

\* A call whose requirements step faulted has returned a failed Task
\* Result, and a call whose repository structure step faulted has
\* returned a completed one.
C25_Witness ==
    \E c1, c2 \in Calls :
        /\ Faulted(c1) /\ researchRun[c1].fault = "requirements"
        /\ callPc[c1] = "done" /\ FailedResultReturned(c1)
        /\ Faulted(c2) /\ researchRun[c2].fault = "repository_structure"
        /\ callPc[c2] = "done" /\ Len(returned[c2]) = 1
        /\ returned[c2][1].status = "completed"

\* No execute_task call is in flight.
NoCallInFlight == \A c \in Calls : callPc[c] \in {"none", "done"}

\* The calls that have exited with a Task Result.
ExitedWithResult == {c \in Calls : callOutcome[c] = "returned"}

\* C26: tasks_completed never decreases and advances by one per admitted
\* attempt: with no call in flight it equals the number of attempts that
\* have exited with a Task Result; a rejected call leaves the performance
\* record unchanged.
C26_TasksCompletedCountsResults ==
    /\ [](NoCallInFlight =>
             performance.tasks_completed = Cardinality(ExitedWithResult))
    /\ [][/\ performance'.tasks_completed >= performance.tasks_completed
          /\ performance'.tasks_completed <= performance.tasks_completed + 1
          /\ (\E c \in Calls :
                 /\ callOutcome'[c] = "TaskExecutionException"
                 /\ callOutcome[c] # "TaskExecutionException") =>
                 performance' = performance]_vars


\* Two attempts have exited, one with a completed and one with a failed
\* Task Result, a report of each having failed, and both are counted.
C26_Witness ==
    \E c, d \in Calls :
        /\ NoCallInFlight
        /\ callOutcome[c] = "returned" /\ returned[c][1].status = "completed"
        /\ callOutcome[d] = "returned" /\ returned[d][1].status = "failed"
        /\ <<"completed", c>> \in failedReports
        /\ <<"failed", d>> \in failedReports
        /\ performance.tasks_completed = 2

\* C28: busy leads to idle: an admitted call whose specialized function
\* ends comes to its exit, returning a Task Result unless it was cancelled,
\* with the agent idle and no current task; and a call made on an idle
\* agent is admitted.
C28_BusyLeadsToIdle ==
    /\ \A c \in Calls :
         callPc[c] = "impl" ~>
            (/\ callPc[c] = "done"
             /\ implOutcome[c] # "none" => callOutcome[c] = "returned"
             /\ status = "idle"
             /\ current_task = NoTask)
    /\ [][\A c \in Calls :
            (CalledNow(c) /\ status = "idle") => callPc'[c] = "impl"]_vars

\* A call has returned its Task Result and left the agent idle with no
\* current task, and the call made after it has been admitted.
C28_Witness ==
    \E c, d \in Calls :
        /\ c < d
        /\ callPc[c] = "done"
        /\ callOutcome[c] = "returned"
        /\ callPc[d] = "impl"
        /\ current_task = d
        /\ status = "busy"

\* The heartbeat loops that have been created and have not ended.
AliveLoops == {l \in Loops : hbPc[l] \notin {"none", "ended"}}

\* C29: whatever start() and stop() calls have been made, at most one
\* heartbeat loop is alive, and a loop that is alive is the one
\* self._heartbeat_task holds, which the next stop() cancels and awaits.
C29_AtMostOneHeartbeatLoop ==
    /\ Cardinality(AliveLoops) <= 1
    /\ \A l \in AliveLoops : l = heartbeat_task

\* C30: once stop() has reported a task in flight as cancelled, no
\* completed or failed report is issued and no Task Result is returned for
\* that task.
C30_NoOutcomeAfterCancelReport ==
    [][\A c \in Calls :
         cancelReports[c] >= 1 =>
            /\ Len(returned'[c]) <= Len(returned[c])
            /\ \A kind \in {"completed", "failed"} :
                  <<kind, c>> \in reports' => <<kind, c>> \in reports]_vars

=============================================================================
